---- MODULE Spec2Model ----
(***************************************************************************)
(* A model of yaarg (mkdocs-yaarg-plugin): the Resolver that maps a file   *)
(* path to a generator, the ParsoGenerator that walks a parsed Python tree *)
(* and yields markdown fragments, and the markdown block processor that    *)
(* splices the fragments into the document.                                *)
(*                                                                         *)
(* Python strings are sequences of pieces (one-character strings for paths,*)
(* globs, names and directive targets; dotted module names are one piece   *)
(* of a generator path, whose only separator that matters is ":").         *)
(* Python values that are type-checked are tagged: <<"int", 3>>.           *)
(***************************************************************************)
EXTENDS Integers, Sequences, FiniteSets, TLC

VARIABLES
    configs,            \* Resolver._configs
    generator_caches,   \* Resolver._generator_caches
    created,            \* every generator object constructed so far, in order
    lastResolve,        \* the last resolve() call: its arguments and its outcome
    genIn,              \* the arguments of ParsoGenerator.generate and the parsed file
    genOut,             \* what generate yielded
    blocks,             \* the block parser's remaining blocks
    consumed,           \* the blocks other block processors have taken
    lastRun             \* the last YaargBlockProcessor.run call

vars == <<configs, generator_caches, created, lastResolve, genIn, genOut,
          blocks, consumed, lastRun>>

\* ------------------------------------------------------------ bounds

MaxUserRules == 2

\* the nodes below the Module in the trees that are walked
MaxNodes == 3

\* the blocks of a document
MaxBlocks == 2

\* ------------------------------------------------------------ Python values

None == <<"None">>
PyInt(n) == <<"int", n>>
PyBool(b) == <<"bool", b>>
PyStr(s) == <<"str", s>>
PyDict(d) == <<"dict", d>>

EmptyDict == [k \in {} |-> None]

Min(S) == CHOOSE x \in S : \A y \in S : x <= y
Max(S) == CHOOSE x \in S : \A y \in S : x >= y

\* dict.pop(key, None): the value
PopValue(d, key) == IF key \in DOMAIN d THEN d[key] ELSE None

\* dict.pop(key, None): the dict that is left
PopRest(d, key) == [k \in DOMAIN d \ {key} |-> d[k]]

\* dict.update(e): e's value replaces d's on a key of both
Update(d, e) ==
    [k \in DOMAIN d \cup DOMAIN e |-> IF k \in DOMAIN e THEN e[k] ELSE d[k]]

\* str.split(sep, maxsplit), maxsplit < 0 for no limit: from the left
RECURSIVE Split(_, _, _)
Split(s, sep, maxsplit) ==
    LET at == {i \in 1..Len(s) : s[i] = sep}
    IN IF at = {} \/ maxsplit = 0 THEN <<s>>
       ELSE LET i == Min(at)
            IN <<SubSeq(s, 1, i - 1)>>
               \o Split(SubSeq(s, i + 1, Len(s)), sep, maxsplit - 1)

\* str.rsplit(sep, 1): at the last separator
RSplit1(s, sep) ==
    LET at == {i \in 1..Len(s) : s[i] = sep}
    IN IF at = {} THEN <<s>>
       ELSE LET i == Max(at)
            IN <<SubSeq(s, 1, i - 1), SubSeq(s, i + 1, Len(s))>>

\* ------------------------------------------------------------ fnmatch

\* fnmatch.translate: the index of the "]" that closes the "[" at j, 0 if none
ClassEnd(p, j) ==
    LET j1 == j + 1
        j2 == IF j1 <= Len(p) /\ p[j1] = "!" THEN j1 + 1 ELSE j1
        j3 == IF j2 <= Len(p) /\ p[j2] = "]" THEN j2 + 1 ELSE j2
        close == {x \in j3..Len(p) : p[x] = "]"}
    IN IF close = {} THEN 0 ELSE Min(close)

\* the pattern from j on matches the whole of s from i on
RECURSIVE GlobMatch(_, _, _, _)
GlobMatch(s, i, p, j) ==
    IF j > Len(p) THEN i > Len(s)
    ELSE IF p[j] = "*"
    THEN GlobMatch(s, i, p, j + 1) \/ (i <= Len(s) /\ GlobMatch(s, i + 1, p, j))
    ELSE IF p[j] = "?"
    THEN i <= Len(s) /\ GlobMatch(s, i + 1, p, j + 1)
    ELSE IF p[j] = "[" /\ ClassEnd(p, j) # 0
    THEN LET k == ClassEnd(p, j)
             neg == p[j + 1] = "!"
             stuff == {p[x] : x \in (IF neg THEN j + 2 ELSE j + 1)..(k - 1)}
         IN i <= Len(s) /\ ((s[i] \in stuff) # neg) /\ GlobMatch(s, i + 1, p, k + 1)
    ELSE i <= Len(s) /\ s[i] = p[j] /\ GlobMatch(s, i + 1, p, j + 1)

\* fnmatch.fnmatch on a POSIX host (normcase changes nothing)
fnmatch(name, pat) == GlobMatch(name, 1, pat, 1)

\* Resolver.match
match(filepath, config) == fnmatch(filepath, config.glob)

\* ------------------------------------------------------------ generator paths

ParsoPath == <<"yaarg.generators.parso", ":", "ParsoGenerator">>
PythonPath == <<"yaarg.generators.python", ":", "PythonGenerator">>
BasePath == <<"yaarg.generators.base", ":", "BaseGenerator">>
NoAttrPath == <<"yaarg.generators.parso", ":", "JSDocGenerator">>
NoModulePath == <<"yaarg.generators.jsdoc", ":", "JSDocGenerator">>

\* the generator paths of YaargPlugin.default_resolver_configs
DefaultPyPath == <<"yaarg.generators.parso.ParsoGenerator">>
DefaultJsPath == <<"yaarg.generators.jsdoc.JSDocGenerator">>

GlobPy == <<"*", ".", "p", "y">>
GlobJs == <<"*", ".", "[", "j", "t", "]", "s", "?">>

default_resolver_configs ==
    << [glob |-> GlobPy, generator |-> DefaultPyPath, options |-> EmptyDict],
       [glob |-> GlobJs, generator |-> DefaultJsPath, options |-> EmptyDict] >>

\* the importable modules of the package and the generator classes each defines
Modules ==
    ( <<"yaarg.generators.parso">> :> {<<"ParsoGenerator">>} )
    @@ ( <<"yaarg.generators.python">> :> {<<"PythonGenerator">>} )
    @@ ( <<"yaarg.generators.base">> :> {<<"BaseGenerator">>} )

\* import_string: a class, or the exception raised
import_string(path) ==
    LET parts == RSplit1(path, ":")
    IN IF Len(parts) # 2
       THEN [ok |-> FALSE, error |-> "ValueError", arg |-> <<>>, cls |-> ""]
       ELSE LET module_name == parts[1]
                obj_name == parts[2]
            IN IF module_name \notin DOMAIN Modules
               THEN [ok |-> FALSE, error |-> "ImportError", arg |-> module_name,
                     cls |-> ""]
               ELSE IF obj_name \notin Modules[module_name]
               THEN [ok |-> FALSE, error |-> "ImportError", arg |-> path, cls |-> ""]
               ELSE [ok |-> TRUE, error |-> "", arg |-> <<>>, cls |-> obj_name[1]]

\* ------------------------------------------------------------ option schemas

\* isinstance(value, type); bool is a subclass of int
IsInstance(v, type) ==
    CASE type = "str" -> v[1] = "str"
      [] type = "int" -> v[1] \in {"int", "bool"}
      [] type = "bool" -> v[1] = "bool"
      [] type = "dict" -> v[1] = "dict"

MethodsSchema ==
    [undocumented |-> [type |-> "bool", default |-> PyBool(TRUE)],
     private |-> [type |-> "bool", default |-> PyBool(FALSE)]]

MethodsDefault == PyDict([undocumented |-> PyBool(TRUE), private |-> PyBool(FALSE)])

\* BaseGenerator.options_schema
BaseSchema == EmptyDict

\* PythonGenerator.options_schema
PythonSchema ==
    [version |-> [type |-> "str", default |-> None],
     encoding |-> [type |-> "str", default |-> PyStr(<<"utf-8">>)]]

\* ParsoGenerator.options_schema
ParsoSchema ==
    [version |-> [type |-> "str", default |-> None],
     encoding |-> [type |-> "str", default |-> PyStr(<<"utf-8">>)],
     depth |-> [type |-> "int", default |-> PyInt(2)],
     deep |-> [type |-> "bool", default |-> PyBool(TRUE)],
     methods |-> [type |-> "methods", default |-> MethodsDefault]]

\* Schema.validate of a dict schema whose values are types
ValidateFlat(schema, data) ==
    LET wrongKeys == DOMAIN data \ DOMAIN schema
        wrongTypes == {k \in DOMAIN data \cap DOMAIN schema :
                          ~IsInstance(data[k], schema[k].type)}
    IN IF wrongKeys # {} \/ wrongTypes # {}
       THEN [ok |-> FALSE, keys |-> wrongKeys \cup wrongTypes, value |-> EmptyDict]
       ELSE [ok |-> TRUE, keys |-> {},
             value |-> [k \in DOMAIN schema |->
                          IF k \in DOMAIN data THEN data[k] ELSE schema[k].default]]

\* Schema.validate of a generator's schema: "methods" is validated by its own schema
Validate(schema, data) ==
    LET wrongKeys == DOMAIN data \ DOMAIN schema
        nested == {k \in DOMAIN data \cap DOMAIN schema : schema[k].type = "methods"}
        flat == (DOMAIN data \cap DOMAIN schema) \ nested
        sub == [k \in nested |->
                  IF IsInstance(data[k], "dict")
                  THEN ValidateFlat(MethodsSchema, data[k][2])
                  ELSE [ok |-> FALSE, keys |-> {}, value |-> EmptyDict]]
        wrongTypes == {k \in flat : ~IsInstance(data[k], schema[k].type)}
                      \cup {k \in nested : ~sub[k].ok}
    IN IF wrongKeys # {} \/ wrongTypes # {}
       THEN [ok |-> FALSE, keys |-> wrongKeys \cup wrongTypes, value |-> EmptyDict]
       ELSE [ok |-> TRUE, keys |-> {},
             value |-> [k \in DOMAIN schema |->
                          IF k \in nested THEN PyDict(sub[k].value)
                          ELSE IF k \in flat THEN data[k]
                          ELSE schema[k].default]]

\* the generator classes: whether the class is abstract, and its options_schema
Classes ==
    [BaseGenerator |-> [abstract |-> TRUE, options_schema |-> BaseSchema],
     PythonGenerator |-> [abstract |-> FALSE, options_schema |-> PythonSchema],
     ParsoGenerator |-> [abstract |-> FALSE, options_schema |-> ParsoSchema]]

\* BaseGenerator.validate_options
validate_options(generator, options) ==
    Validate(Classes[generator.cls].options_schema, options)

\* ------------------------------------------------------------ Resolver

LastMatch(cfgs, filepath) ==
    LET hits == {i \in 1..Len(cfgs) : match(filepath, cfgs[i])}
    IN IF hits = {} THEN 0 ELSE Max(hits)

\* the for loop of resolve: the index of the config it breaks at, 0 if it ends
RECURSIVE MatchLoop(_, _, _)
MatchLoop(cfgs, i, filepath) ==
    IF i > Len(cfgs) THEN 0
    ELSE IF match(filepath, cfgs[i]) THEN i
    ELSE MatchLoop(cfgs, i + 1, filepath)

FirstMatch(cfgs, filepath) == MatchLoop(cfgs, 1, filepath)

OverrideIgnored(options) == None

\* options.pop("generator", None)
GeneratorOverride(options) == PopValue(options, "generator")

CacheNeverHit(caches, generator_path) == FALSE

\* generator_path in self._generator_caches
CacheHit(caches, generator_path) == generator_path \in DOMAIN caches

\* no generator object
NoGenerator == [cls |-> "", oid |-> 0]

\* resolve raises: the exception's class, its argument, and for a SchemaError the
\* keys at fault
Failure(status, arg, keys, generator_path, matched, merged, caches, heap) ==
    [status |-> status, arg |-> arg, keys |-> keys,
     generator_path |-> generator_path, matched |-> matched, merged |-> merged,
     generator |-> NoGenerator, options |-> EmptyDict, caches |-> caches,
     created |-> heap]

\* Resolver.resolve from the lookup in the cache on
Instantiate(caches, heap, generator_path, matched, merged) ==
    LET hit == CacheHit(caches, generator_path)
        imp == import_string(generator_path)
    IN IF ~hit /\ ~imp.ok
       THEN Failure(imp.error, imp.arg, {}, generator_path, matched, merged,
                    caches, heap)
       ELSE IF ~hit /\ Classes[imp.cls].abstract
       THEN Failure("TypeError", <<imp.cls>>, {}, generator_path, matched, merged,
                    caches, heap)
       ELSE LET generator == IF hit THEN caches[generator_path]
                             ELSE [cls |-> imp.cls, oid |-> Len(heap) + 1]
                caches2 == IF hit THEN caches
                           ELSE [p \in DOMAIN caches \cup {generator_path} |->
                                   IF p = generator_path THEN generator
                                   ELSE caches[p]]
                heap2 == IF hit THEN heap
                         ELSE Append(heap, [path |-> generator_path,
                                            generator |-> generator])
                v == validate_options(generator, merged)
            IN IF ~v.ok
               THEN Failure("SchemaError", <<>>, v.keys, generator_path, matched,
                            merged, caches2, heap2)
               ELSE [status |-> "ok", arg |-> <<>>, keys |-> {},
                     generator_path |-> generator_path, matched |-> matched,
                     merged |-> merged, generator |-> generator,
                     options |-> v.value, caches |-> caches2, created |-> heap2]

\* Resolver.resolve
resolve(cfgs, caches, heap, filepath, raw) ==
    LET options == PopRest(raw, "generator")
        override == GeneratorOverride(raw)
    IN IF override = None
       THEN LET i == FirstMatch(cfgs, filepath)
            IN IF i = 0
               THEN Failure("ResolverError", filepath, {}, None, 0, options, caches,
                            heap)
               ELSE Instantiate(caches, heap, cfgs[i].generator, i,
                                Update(options, cfgs[i].options))
       ELSE Instantiate(caches, heap, override[2], 0, options)

\* ------------------------------------------------------------ the resolver's inputs

PathAPy == <<"a", ".", "p", "y">>
PathBPy == <<"b", ".", "p", "y">>
PathJsx == <<"a", ".", "j", "s", "x">>
PathMd == <<"a", ".", "m", "d">>

FilePaths == {PathAPy, PathBPy, PathJsx, PathMd}

\* the rules a site's mkdocs.yml may give the plugin
UserRules ==
    { [glob |-> <<"*">>, generator |-> PythonPath, options |-> EmptyDict],
      [glob |-> PathAPy, generator |-> ParsoPath, options |-> [depth |-> PyInt(3)]],
      [glob |-> <<"?", ".", "m", "d">>, generator |-> BasePath, options |-> EmptyDict] }

RECURSIVE SeqsUpTo(_, _)
SeqsUpTo(S, n) ==
    IF n = 0 THEN {<<>>}
    ELSE LET shorter == SeqsUpTo(S, n - 1)
         IN shorter \cup {Append(q, x) : q \in shorter, x \in S}

\* the options of a directive, before its "generator" key
PlainOptions ==
    { EmptyDict,
      [depth |-> PyInt(1)],
      [color |-> PyStr(<<"red">>)] }

GeneratorChoices ==
    {None, PyStr(ParsoPath), PyStr(PythonPath), PyStr(NoAttrPath), PyStr(NoModulePath)}

RawOptions ==
    PlainOptions
    \cup {Update(o, [generator |-> g]) : o \in PlainOptions, g \in GeneratorChoices}

NoCall ==
    [called |-> FALSE, filepath |-> <<>>, raw |-> EmptyDict, status |-> "",
     arg |-> <<>>, keys |-> {}, generator_path |-> None, matched |-> 0,
     merged |-> EmptyDict, generator |-> NoGenerator, options |-> EmptyDict,
     instantiated |-> FALSE]

CallRecord(filepath, raw, r, heap) ==
    [called |-> TRUE, filepath |-> filepath, raw |-> raw, status |-> r.status,
     arg |-> r.arg, keys |-> r.keys, generator_path |-> r.generator_path,
     matched |-> r.matched,
     merged |-> r.merged, generator |-> r.generator, options |-> r.options,
     instantiated |-> Len(r.created) > Len(heap)]

\* YaargPlugin.load_config: the user's rules, then the built-in ones
load_config(user) == user \o default_resolver_configs

\* Resolver.__init__
InitResolver(user) ==
    /\ configs = load_config(user)
    /\ generator_caches = [p \in {} |-> NoGenerator]
    /\ created = <<>>
    /\ lastResolve = NoCall

IdleGenerate == genIn = None /\ genOut = None
IdleMarkdown == blocks = <<>> /\ consumed = <<>> /\ lastRun = None

InitResolve ==
    /\ \E user \in SeqsUpTo(UserRules, MaxUserRules) : InitResolver(user)
    /\ IdleGenerate
    /\ IdleMarkdown

\* a call of Resolver.resolve
Resolve ==
    \E filepath \in FilePaths, raw \in RawOptions :
        LET r == resolve(configs, generator_caches, created, filepath, raw)
        IN /\ generator_caches' = r.caches
           /\ created' = r.created
           /\ lastResolve' = CallRecord(filepath, raw, r, created)
           /\ UNCHANGED <<configs, genIn, genOut, blocks, consumed, lastRun>>

NextResolve == Resolve

SpecResolve == InitResolve /\ [][NextResolve]_vars

\* ------------------------------------------------------------ claims on the resolver

\* the call gave a generator path of its own
HasOverride(raw) == "generator" \in DOMAIN raw /\ raw["generator"] # None

\* the rules whose glob matches the path of the last call
Matching == {i \in 1..Len(configs) : fnmatch(lastResolve.filepath, configs[i].glob)}

\* C1: without an override, resolve selects the generator of the first rule, in
\* the order of the configuration, whose glob matches the path, whatever rules
\* match after it.
C1_FirstMatchWins ==
    (lastResolve.called /\ ~HasOverride(lastResolve.raw) /\ Matching # {}) =>
        /\ lastResolve.matched = Min(Matching)
        /\ lastResolve.generator_path = configs[Min(Matching)].generator

\* a later rule whose glob is the path itself matches too, and names another generator
C1_Witness ==
    /\ lastResolve.called
    /\ ~HasOverride(lastResolve.raw)
    /\ \E j \in Matching :
          /\ j > Min(Matching)
          /\ configs[j].glob = lastResolve.filepath
          /\ configs[j].generator # lastResolve.generator_path

\* C2: the options handed to validation hold every key of the raw options and
\* of the matched rule's options, with the raw options' value on a key of both.
C2_RawOptionsWin ==
    (lastResolve.called /\ lastResolve.matched # 0
        /\ lastResolve.status \in {"ok", "SchemaError"}) =>
        LET o == PopRest(lastResolve.raw, "generator")
            d == configs[lastResolve.matched].options
        IN /\ DOMAIN lastResolve.merged = DOMAIN o \cup DOMAIN d
           /\ \A k \in DOMAIN o : lastResolve.merged[k] = o[k]

\* C3: a generator path is instantiated at most once, a resolve that returns
\* returns the instance made for its path, and the cache keeps, for every path
\* ever instantiated, the instance first made for it.
C3_CacheWriteOnce ==
    /\ \A i, j \in 1..Len(created) : created[i].path = created[j].path => i = j
    /\ DOMAIN generator_caches = {created[i].path : i \in 1..Len(created)}
    /\ \A i \in 1..Len(created) :
          generator_caches[created[i].path] = created[i].generator
    /\ lastResolve.status = "ok" =>
          /\ lastResolve.generator_path \in DOMAIN generator_caches
          /\ lastResolve.generator = generator_caches[lastResolve.generator_path]

\* a resolve returned the cached instance while another path is cached as well
C3_Witness ==
    /\ lastResolve.status = "ok"
    /\ ~lastResolve.instantiated
    /\ Len(created) >= 2

\* C4: resolve raises ResolverError, carrying the path, exactly when the call
\* gives no generator and no rule's glob matches the path; a call that gives a
\* generator matches no rule and merges no rule's options.
C4_ResolverErrorIffNoMatch ==
    lastResolve.called =>
        /\ (lastResolve.status = "ResolverError")
              <=> (~HasOverride(lastResolve.raw) /\ Matching = {})
        /\ lastResolve.status = "ResolverError" =>
              lastResolve.arg = lastResolve.filepath
        /\ HasOverride(lastResolve.raw) =>
              /\ lastResolve.matched = 0
              /\ lastResolve.generator_path = lastResolve.raw["generator"][2]
              /\ lastResolve.merged = PopRest(lastResolve.raw, "generator")

C4_Witness ==
    /\ lastResolve.status = "ResolverError"
    /\ lastResolve.arg = PathMd
    /\ Len(configs) > Len(default_resolver_configs)

\* C5: a path that matches "*.py" and no user rule resolves to the built-in
\* Python generator path, which is imported, instantiated and cached; a path
\* that cannot be imported fails with ImportError.
C5_BuiltinPythonRuleResolves ==
    /\ (lastResolve.called /\ ~HasOverride(lastResolve.raw)
          /\ Matching # {} /\ Min(Matching) = Len(configs) - 1) =>
          /\ lastResolve.generator_path = DefaultPyPath
          /\ lastResolve.status \in {"ok", "SchemaError"}
          /\ DefaultPyPath \in DOMAIN generator_caches
    /\ (lastResolve.called /\ lastResolve.generator_path # None
          /\ lastResolve.generator_path \notin DOMAIN generator_caches) =>
          lastResolve.status \in {"ImportError", "TypeError"}

\* ------------------------------------------------------------ parsed trees

(***************************************************************************)
(* A parsed file is a tree of nodes numbered in source order, node 1 the   *)
(* Module: tree.parent[n] is n's parent (0 for the Module) and             *)
(* tree.node[n] what the generator reads of node n: its type, its name     *)
(* (None for a node without one), its docstring as docstring_parser gives  *)
(* it, and for a function its parameters, decorators and annotation.       *)
(* PythonNode is parso's wrapper class (suite, simple_stmt, decorated).    *)
(***************************************************************************)

ModuleType == "file_input"
ClassType == "classdef"
FunctionType == "funcdef"
PythonNodeTypes == {"suite", "simple_stmt", "decorated"}

NoReturns == [present |-> FALSE, type_name |-> None, description |-> None]

NoDoc ==
    [present |-> FALSE, short_description |-> None, long_description |-> None,
     params |-> EmptyDict, returns |-> NoReturns]

Node(type, name, doc, params, decorators, annotation) ==
    [type |-> type, name |-> name, doc |-> doc, params |-> params,
     decorators |-> decorators, annotation |-> annotation]

\* node.children, in source order
children(tree, n) ==
    LET kids == {i \in 1..Len(tree.parent) : tree.parent[i] = n}
        RECURSIVE Sorted(_)
        Sorted(S) == IF S = {} THEN <<>> ELSE <<Min(S)>> \o Sorted(S \ {Min(S)})
    IN Sorted(kids)

\* iter_children: the children, those of a PythonNode in its place
RECURSIVE iter_children(_, _)
RECURSIVE IterLoop(_, _, _)
IterLoop(tree, kids, i) ==
    IF i > Len(kids) THEN <<>>
    ELSE (IF tree.node[kids[i]].type \in PythonNodeTypes
          THEN iter_children(tree, kids[i])
          ELSE <<kids[i]>>)
         \o IterLoop(tree, kids, i + 1)

iter_children(tree, n) ==
    IF n = 0 THEN <<>> ELSE IterLoop(tree, children(tree, n), 1)

\* the for loop of find_symbol over the children: the child it breaks at, 0 if none
RECURSIVE FindChild(_, _, _, _)
FindChild(tree, kids, i, part) ==
    IF i > Len(kids) THEN 0
    ELSE IF tree.node[kids[i]].name # None /\ tree.node[kids[i]].name = part
    THEN kids[i]
    ELSE FindChild(tree, kids, i + 1, part)

RECURSIVE FindLoop(_, _, _, _)
FindLoop(tree, current_node, parts, i) ==
    IF i > Len(parts) THEN current_node
    ELSE LET child == FindChild(tree, iter_children(tree, current_node), 1, parts[i])
         IN IF child = 0 THEN 0 ELSE FindLoop(tree, child, parts, i + 1)

RECURSIVE FindLoopKeeping(_, _, _, _)
FindLoopKeeping(tree, current_node, parts, i) ==
    IF i > Len(parts) THEN current_node
    ELSE LET child == FindChild(tree, iter_children(tree, current_node), 1, parts[i])
         IN IF child = 0 THEN current_node
            ELSE FindLoopKeeping(tree, child, parts, i + 1)

find_symbol_keeping(tree, module, path) ==
    FindLoopKeeping(tree, module, Split(path, ".", -1), 1)

\* find_symbol: the node, 0 for None
find_symbol(tree, module, path) == FindLoop(tree, module, Split(path, ".", -1), 1)

\* isnode
isnode(tree, n, type) == IF n = 0 THEN FALSE ELSE tree.node[n].type = type

\* get_code
get_code(code) == code

\* Python's truth of a string or None
Truthy(v) == v # None /\ v # PyStr(<<>>)

Or3(a, b, c) == IF Truthy(a) THEN a ELSE IF Truthy(b) THEN b ELSE c

\* ------------------------------------------------------------ markdown fragments

\* a fragment: node is the tree node it was rendered for
Fragment(kind, level, text, rows) ==
    [kind |-> kind, level |-> level, text |-> text, rows |-> rows, node |-> 0]

markdown_heading(text, level) == Fragment("heading", level, PyStr(text), <<>>)

markdown_paragraph(text) == Fragment("paragraph", 0, text, <<>>)

\* markdown_block(): the lines written, built into one fragment
markdown_block(lines) == Fragment("block", 0, None, lines)

For(n, fragments) == [i \in 1..Len(fragments) |-> [fragments[i] EXCEPT !.node = n]]

Cell(piece) == PyStr(<<piece>>)

\* the grave accent that opens and closes a code span
Backquote == "GRAVE ACCENT"

\* str.strip
RECURSIVE Strip(_)
Strip(s) ==
    IF s = <<>> THEN s
    ELSE IF Head(s) \in {" ", "\n"} THEN Strip(Tail(s))
    ELSE IF s[Len(s)] \in {" ", "\n"} THEN Strip(SubSeq(s, 1, Len(s) - 1))
    ELSE s

RECURSIVE Join(_)
Join(strings) == IF strings = <<>> THEN <<>> ELSE Head(strings) \o Join(Tail(strings))

\* ------------------------------------------------------------ ParsoGenerator

\* ParsoGeneratorContext.parent_name
parent_name(tree, context) ==
    IF context.parent = 0 THEN None ELSE tree.node[context.parent].name

set_parent_in_place(self, parent) ==
    LET changed == [self EXCEPT !.parent = parent, !.depth = @ + 1]
    IN [self |-> changed, result |-> changed]

\* ParsoGeneratorContext.set_parent: the context of the caller after the call,
\* and the context returned
set_parent(self, parent) ==
    [self |-> self, result |-> [self EXCEPT !.parent = parent, !.depth = @ + 1]]

\* the two paragraphs of a module's or a class's docstring
DocParagraphs(doc) ==
    IF doc.present
    THEN <<markdown_paragraph(doc.short_description),
           markdown_paragraph(doc.long_description)>>
    ELSE <<>>

\* re.match(r"^_[^_]+?$", name)
PrivateName(name) ==
    /\ Len(name) >= 2
    /\ name[1] = "_"
    /\ \A i \in 2..Len(name) : name[i] # "_"

\* re.search("(staticmethod|classmethod)", code), on the pieces of the code
StaticLike(code) == \E i \in 1..Len(code) : code[i] \in {"staticmethod", "classmethod"}

KeepReceiver(params) == params

\* the parameters but a first one named self or cls
DropReceiver(params) ==
    IF params # <<>> /\ params[1].name \in {<<"self">>, <<"cls">>}
    THEN Tail(params)
    ELSE params

\* a row of the Arguments table
ParamRow(param_node, param_docs) ==
    LET documented == param_node.name \in DOMAIN param_docs
        param_doc == param_docs[param_node.name]
    IN << PyStr(param_node.name),
          Or3(IF documented THEN param_doc.type_name ELSE None,
              get_code(param_node.annotation), Cell("-")),
          IF documented THEN param_doc.description ELSE Cell("-"),
          Or3(IF documented THEN param_doc.default ELSE None,
              get_code(param_node.default), Cell("-")) >>

ArgumentsTable(param_nodes, param_docs, level) ==
    IF param_nodes = <<>> THEN <<>>
    ELSE << markdown_heading(<<"Arguments">>, level + 1),
            markdown_block(
                << <<Cell("Name"), Cell("Type"), Cell("Description"), Cell("Default")>>,
                   <<Cell("----"), Cell("----"), Cell("-----------"), Cell("-------")>> >>
                \o [i \in 1..Len(param_nodes) |-> ParamRow(param_nodes[i], param_docs)]) >>

ReturnsTable(func, level) ==
    LET returns_doc == IF func.doc.present THEN func.doc.returns ELSE NoReturns
    IN << markdown_heading(<<"Returns">>, level + 1),
          markdown_block(
              << <<Cell("Type"), Cell("Description")>>,
                 <<Cell("----"), Cell("-----------")>>,
                 << Or3(IF returns_doc.present THEN returns_doc.type_name ELSE None,
                        get_code(func.annotation), Cell("-")),
                    IF returns_doc.present /\ Truthy(returns_doc.description)
                    THEN returns_doc.description ELSE Cell("-") >> >>) >>

\* ParsoGenerator._generate_func_doc
generate_func_doc(tree, func_node, context) ==
    LET func == tree.node[func_node]
        methods == context.options["methods"][2]
    IN IF ~methods["undocumented"][2] /\ ~func.doc.present THEN <<>>
       ELSE IF ~methods["private"][2] /\ PrivateName(func.name) THEN <<>>
       ELSE
       LET is_static == \E i \in 1..Len(func.decorators) : StaticLike(func.decorators[i])
           prefix == IF isnode(tree, context.parent, ClassType)
                     THEN parent_name(tree, context)
                          \o <<IF is_static THEN "." ELSE "#">>
                     ELSE <<>>
           param_nodes == DropReceiver(func.params)
           param_docs == IF func.doc.present THEN func.doc.params ELSE EmptyDict
           params == Strip(Join([i \in 1..Len(param_nodes) |-> param_nodes[i].code]))
       IN For(func_node,
              << markdown_heading(
                     <<Backquote>> \o prefix \o func.name \o <<"(">> \o params
                     \o <<")", Backquote, "\n">>,
                     context.depth) >>
              \o (IF func.doc.present
                  THEN <<markdown_paragraph(func.doc.short_description)>> ELSE <<>>)
              \o ArgumentsTable(param_nodes, param_docs, context.depth)
              \o ReturnsTable(func, context.depth)
              \o (IF func.doc.present /\ Truthy(func.doc.long_description)
                  THEN << markdown_heading(<<"Details">>, context.depth + 1),
                          markdown_paragraph(func.doc.long_description) >>
                  ELSE <<>>))

RECURSIVE generate_doc(_, _, _)
RECURSIVE ChildrenLoop(_, _, _, _, _)

\* for child_node in iter_children(node):
\*     yield from self._generate_doc(child_node, context.set_parent(node))
ChildrenLoop(tree, kids, i, context, node) ==
    IF i > Len(kids) THEN <<>>
    ELSE LET call == set_parent(context, node)
         IN generate_doc(tree, kids[i], call.result)
            \o ChildrenLoop(tree, kids, i + 1, call.self, node)

\* ParsoGenerator._generate_module_doc
generate_module_doc(tree, module_node, context) ==
    For(module_node,
        <<markdown_heading(<<Backquote>> \o context.filepath \o <<Backquote>>, context.depth)>>
        \o DocParagraphs(tree.node[module_node].doc))
    \o (IF context.deep
        THEN ChildrenLoop(tree, iter_children(tree, module_node), 1, context, module_node)
        ELSE <<>>)

\* ParsoGenerator._generate_class_doc
generate_class_doc(tree, class_node, context) ==
    For(class_node,
        <<markdown_heading(<<Backquote>> \o tree.node[class_node].name \o <<Backquote>>,
                           context.depth)>>
        \o DocParagraphs(tree.node[class_node].doc))
    \o (IF context.deep
        THEN ChildrenLoop(tree, iter_children(tree, class_node), 1, context, class_node)
        ELSE <<>>)

\* ParsoGenerator._generate_doc
generate_doc(tree, node, context) ==
    IF isnode(tree, node, ModuleType) THEN generate_module_doc(tree, node, context)
    ELSE IF isnode(tree, node, ClassType) THEN generate_class_doc(tree, node, context)
    ELSE IF isnode(tree, node, FunctionType) THEN generate_func_doc(tree, node, context)
    ELSE <<>>

\* ParsoGenerator.generate, on the tree the file parses to
generate(tree, filepath, symbol, options) ==
    LET root_node == IF symbol # None THEN find_symbol(tree, 1, symbol) ELSE 1
        context == [filepath |-> filepath, symbol |-> symbol, parent |-> 0,
                    depth |-> options["depth"][2], deep |-> options["deep"][2],
                    options |-> options]
    IN [root_node |-> root_node, fragments |-> generate_doc(tree, root_node, context)]

\* ------------------------------------------------------------ the generator's inputs

ShortDoc ==
    [present |-> TRUE, short_description |-> PyStr(<<"Adds.">>),
     long_description |-> None, params |-> EmptyDict, returns |-> NoReturns]

FullDoc ==
    [present |-> TRUE, short_description |-> PyStr(<<"Adds.">>),
     long_description |-> PyStr(<<"More.">>),
     params |-> (<<"x">> :> [type_name |-> PyStr(<<"int">>),
                             description |-> PyStr(<<"an x">>), default |-> None]),
     returns |-> [present |-> TRUE, type_name |-> PyStr(<<"int">>),
                  description |-> PyStr(<<"the sum">>)]]

ModuleNode == Node(ModuleType, None, NoDoc, <<>>, <<>>, None)
ClassA == Node(ClassType, <<"A">>, ShortDoc, <<>>, <<>>, None)
PlainFunction(name) == Node(FunctionType, name, NoDoc, <<>>, <<>>, None)
Suite == Node("suite", None, NoDoc, <<>>, <<>>, None)
Keyword == Node("keyword", None, NoDoc, <<>>, <<>>, None)

\* the ancestors of node k, and k
RECURSIVE PathToRoot(_, _)
PathToRoot(parent, k) == IF k = 0 THEN {} ELSE {k} \cup PathToRoot(parent, parent[k])

\* the parent vectors of the trees of n nodes numbered in source order
RECURSIVE Shapes(_)
Shapes(n) ==
    IF n = 1 THEN {<<0>>}
    ELSE UNION { {Append(p, q) : q \in PathToRoot(p, n - 1)} : p \in Shapes(n - 1) }

WalkNodes ==
    { ClassA, PlainFunction(<<"a">>), PlainFunction(<<"b">>), PlainFunction(<<"c">>),
      Suite, Keyword }

\* a Module over MaxNodes nodes; a leaf has no children
WalkTrees ==
    { t \in { [parent |-> p, node |-> <<ModuleNode>> \o l] :
                 p \in Shapes(MaxNodes + 1), l \in [1..MaxNodes -> WalkNodes] } :
        \A i \in 2..Len(t.parent) : t.node[t.parent[i]].type # "keyword" }

WalkSymbols ==
    { None, <<"A">>, <<"a">>, <<"A", ".", "a">>, <<"A", ".", "b">> }

WalkOptions == { EmptyDict, [deep |-> PyBool(FALSE)] }

ParamSelf == [name |-> <<"self">>, code |-> <<"self", ",", " ">>,
              annotation |-> None, default |-> None]
ParamSelfOnly == [name |-> <<"self">>, code |-> <<"self">>,
                  annotation |-> None, default |-> None]
ParamCls == [name |-> <<"cls">>, code |-> <<"cls">>,
             annotation |-> None, default |-> None]
ParamX == [name |-> <<"x">>, code |-> <<"x">>, annotation |-> None, default |-> None]
ParamXFirst == [name |-> <<"x">>, code |-> <<"x", ":", "int", "=", "0", ",", " ">>,
                annotation |-> PyStr(<<"int">>), default |-> PyStr(<<"0">>)]

ParamLists ==
    { <<>>, <<ParamSelfOnly>>, <<ParamCls>>, <<ParamX>>, <<ParamSelf, ParamX>>,
      <<ParamXFirst, ParamSelfOnly>> }

FuncNames ==
    { <<"f">>, <<"_", "h">>, <<"_", "_", "i", "_", "_">>, <<"_", "_", "x">>,
      <<"_", "a", "_", "b">>, <<"_">> }

FuncDocs == {NoDoc, ShortDoc, FullDoc}

Decorations == { <<>>, << <<"@", "staticmethod">> >> }

Functions ==
    { Node(FunctionType, name, doc, params, decorators, None) :
        name \in FuncNames, doc \in FuncDocs, params \in ParamLists,
        decorators \in Decorations }

\* one function, of a module or of a class
FunctionTrees ==
    { [parent |-> <<0, 1>>, node |-> <<ModuleNode, f>>] : f \in Functions }
    \cup { [parent |-> <<0, 1, 2, 3>>, node |-> <<ModuleNode, ClassA, Suite, f>>] :
             f \in Functions }

\* a class of three functions
MemberTrees ==
    { [parent |-> <<0, 1, 2, 3, 3, 3>>,
       node |-> <<ModuleNode, ClassA, Suite>>
                \o [i \in 1..3 |-> PlainFunction(names[i])]] :
        names \in [1..3 -> {<<"a">>, <<"b">>, <<"c">>}] }

\* a class without a docstring
ClassU == Node(ClassType, <<"A">>, NoDoc, <<>>, <<>>, None)

\* one method, with or without a docstring, of a class without a docstring
UndocumentedClassTrees ==
    { [parent |-> <<0, 1, 2, 3>>,
       node |-> <<ModuleNode, ClassU, Suite,
                  Node(FunctionType, <<"f">>, doc, <<ParamSelf, ParamX>>, <<>>, None)>>] :
        doc \in FuncDocs }

\* the dotted path of a node: the names from the Module down
RECURSIVE SymbolOf(_, _)
SymbolOf(tree, n) ==
    LET named == {k \in PathToRoot(tree.parent, tree.parent[n]) :
                     tree.node[k].name # None}
    IN IF named = {} THEN tree.node[n].name
       ELSE SymbolOf(tree, Max(named)) \o <<".">> \o tree.node[n].name

FunctionOptions ==
    { EmptyDict,
      [methods |-> PyDict([undocumented |-> PyBool(FALSE)])],
      [methods |-> PyDict([private |-> PyBool(TRUE)])],
      [methods |-> PyDict([undocumented |-> PyBool(FALSE), private |-> PyBool(TRUE)])] }

ClassOptions ==
    FunctionOptions
    \cup { [deep |-> PyBool(FALSE)],
           [deep |-> PyBool(FALSE), methods |-> PyDict([undocumented |-> PyBool(FALSE)])] }

NotGenerated == [done |-> FALSE, root_node |-> 0, fragments |-> <<>>]

GenerateInput(tree, symbol, raw) ==
    [tree |-> tree, filepath |-> PathAPy, symbol |-> symbol,
     options |-> Validate(ParsoSchema, raw).value]

IdleResolver == InitResolver(<<>>)

InitGenerate ==
    /\ \/ \E tree \in WalkTrees, symbol \in WalkSymbols, raw \in WalkOptions :
             genIn = GenerateInput(tree, symbol, raw)
       \/ \E tree \in MemberTrees, symbol \in {None, <<"A">>}, raw \in WalkOptions :
             genIn = GenerateInput(tree, symbol, raw)
       \/ \E tree \in UndocumentedClassTrees, symbol \in {None, <<"A">>},
                raw \in ClassOptions :
             genIn = GenerateInput(tree, symbol, raw)
       \/ \E tree \in FunctionTrees, raw \in FunctionOptions :
             \E symbol \in {None, SymbolOf(tree, Len(tree.parent))} :
                 genIn = GenerateInput(tree, symbol, raw)
    /\ genOut = NotGenerated
    /\ IdleResolver
    /\ IdleMarkdown

\* a call of ParsoGenerator.generate, its fragments taken to the end
Generate ==
    /\ ~genOut.done
    /\ LET r == generate(genIn.tree, genIn.filepath, genIn.symbol, genIn.options)
       IN genOut' = [done |-> TRUE, root_node |-> r.root_node,
                     fragments |-> r.fragments]
    /\ UNCHANGED <<configs, generator_caches, created, lastResolve, genIn,
                   blocks, consumed, lastRun>>

NextGenerate == Generate

SpecGenerate == InitGenerate /\ [][NextGenerate]_vars

\* ------------------------------------------------------------ claims on the generator

\* the nearest ancestor of k that is no PythonNode, 0 if none
RECURSIVE RenderParent(_, _)
RenderParent(tree, k) ==
    LET p == tree.parent[k]
    IN IF p = 0 THEN 0
       ELSE IF tree.node[p].type \in PythonNodeTypes THEN RenderParent(tree, p)
       ELSE p

\* the nodes below n with only PythonNodes between n and them
FlatChildren(tree, n) ==
    {k \in 1..Len(tree.parent) :
        tree.node[k].type \notin PythonNodeTypes /\ RenderParent(tree, k) = n}

\* the node a dotted path leads to from n, 0 if a part names no flat child
RECURSIVE Reach(_, _, _)
Reach(tree, n, parts) ==
    IF parts = <<>> THEN n
    ELSE LET named == {k \in FlatChildren(tree, n) : tree.node[k].name = Head(parts)}
         IN IF named = {} THEN 0 ELSE Reach(tree, Min(named), Tail(parts))

Target ==
    IF genIn.symbol = None THEN 1
    ELSE Reach(genIn.tree, 1, Split(genIn.symbol, ".", -1))

\* rendering from root comes to node k
RECURSIVE Reached(_, _, _, _)
Reached(tree, root, deep, k) ==
    IF k = root THEN TRUE
    ELSE LET rp == RenderParent(tree, k)
         IN /\ deep
            /\ rp # 0
            /\ tree.node[rp].type \in {ModuleType, ClassType}
            /\ tree.node[k].type \notin PythonNodeTypes
            /\ Reached(tree, root, deep, rp)

HideUndocumented == ~genIn.options["methods"][2]["undocumented"][2]
ShowPrivate == genIn.options["methods"][2]["private"][2]

\* the functions rendering comes to
ReachedFunctions ==
    {k \in 1..Len(genIn.tree.parent) :
        /\ genIn.tree.node[k].type = FunctionType
        /\ Reached(genIn.tree, genOut.root_node, genIn.options["deep"][2], k)}

Suppressed(func) ==
    \/ HideUndocumented /\ ~func.doc.present
    \/ ~ShowPrivate /\ PrivateName(func.name)

\* the nodes that rendering from root writes fragments for
Shown(root) ==
    {k \in 1..Len(genIn.tree.parent) :
        /\ Reached(genIn.tree, root, genIn.options["deep"][2], k)
        /\ \/ genIn.tree.node[k].type \in {ModuleType, ClassType}
           \/ genIn.tree.node[k].type = FunctionType /\ ~Suppressed(genIn.tree.node[k])}

FragmentNodes == {genOut.fragments[i].node : i \in 1..Len(genOut.fragments)}

\* the fragments written for node k
Own(k) == SelectSeq(genOut.fragments, LAMBDA f : f.node = k)

RECURSIVE LevelOf(_, _, _, _)
LevelOf(tree, root, depth, k) ==
    IF k = root THEN depth
    ELSE LevelOf(tree, root, depth, RenderParent(tree, k)) + 1

\* C7: with deep on, the fragments follow the tree depth first: the fragments
\* of a node come together, before those of the nodes declared after it (its
\* children first among them), the first of them is its heading, and the
\* heading's level is that of the node it was rendered under plus one.
C7_PreOrder ==
    (genOut.done /\ genIn.options["deep"][2]) =>
        LET fr == genOut.fragments
        IN /\ \A i, j \in 1..Len(fr) : i < j => fr[i].node <= fr[j].node
           /\ FragmentNodes = Shown(genOut.root_node)
           /\ \A k \in FragmentNodes :
                 LET first == Min({i \in 1..Len(fr) : fr[i].node = k})
                 IN /\ fr[first].kind = "heading"
                    /\ fr[first].level =
                          LevelOf(genIn.tree, genOut.root_node,
                                  genIn.options["depth"][2], k)

\* the headings of the functions, in the order of the output
FunctionHeadings ==
    SelectSeq(genOut.fragments,
              LAMBDA f : /\ genIn.tree.node[f.node].type = FunctionType
                         /\ f.level = genIn.options["depth"][2] + 2)

\* a class declares b, a, c in that order and the headings come in that order
C7_Witness ==
    /\ genOut.done
    /\ genIn.options["deep"][2]
    /\ genIn.symbol = None
    /\ Len(genIn.tree.parent) = 6
    /\ [i \in 1..3 |-> genIn.tree.node[i + 3].name] = << <<"b">>, <<"a">>, <<"c">> >>
    /\ [i \in 1..Len(FunctionHeadings) |-> FunctionHeadings[i].node] = <<4, 5, 6>>

\* the parameters of a function but a leading self or cls
Arguments(func) ==
    IF func.params = <<>> THEN <<>>
    ELSE IF func.params[1].name = <<"self">> \/ func.params[1].name = <<"cls">>
    THEN SubSeq(func.params, 2, Len(func.params))
    ELSE func.params

HasHeading(fragments, title) ==
    \E i \in 1..Len(fragments) :
        fragments[i].kind = "heading" /\ fragments[i].text = PyStr(<<title>>)

\* a heading with this title and a table after it
HasTable(fragments, title) ==
    \E i \in 1..Len(fragments) - 1 :
        /\ fragments[i].kind = "heading"
        /\ fragments[i].text = PyStr(<<title>>)
        /\ fragments[i + 1].kind = "block"

\* C8: a function without a docstring writes nothing when undocumented
\* functions are hidden; when they are shown, a function that the private
\* filter lets through writes its heading and a Returns table, and an Arguments
\* table exactly when it has a parameter other than a leading self or cls.
C8_UndocumentedFunctions ==
    genOut.done =>
        \A k \in ReachedFunctions :
            LET func == genIn.tree.node[k]
                own == Own(k)
            IN /\ (HideUndocumented /\ ~func.doc.present) => own = <<>>
               /\ (~HideUndocumented /\ ~(~ShowPrivate /\ PrivateName(func.name))) =>
                     /\ own # <<>>
                     /\ own[1].kind = "heading"
                     /\ HasTable(own, "Returns")
                     /\ HasTable(own, "Arguments") <=> Arguments(func) # <<>>
                     /\ HasHeading(own, "Arguments") <=> Arguments(func) # <<>>

\* an undocumented method of self alone is shown: a heading and a Returns
\* table, no Arguments table
C8_Witness ==
    /\ genOut.done
    /\ ~HideUndocumented
    /\ \E k \in ReachedFunctions :
          /\ ~genIn.tree.node[k].doc.present
          /\ Len(genIn.tree.node[k].params) = 1
          /\ genIn.tree.node[k].params[1].name = <<"self">>
          /\ Len(Own(k)) = 3
          /\ HasTable(Own(k), "Returns")

\* a name of one leading underscore, and more
SingleUnderscoreName(name) == Len(name) >= 2 /\ name[1] = "_" /\ name[2] # "_"

DunderName(name) == Len(name) >= 2 /\ name[1] = "_" /\ name[2] = "_"

\* C9: with private functions not shown, a function whose name has a single
\* leading underscore writes nothing, and a function whose name starts with two
\* underscores is not held back for its name.
C9_PrivateFunctions ==
    (genOut.done /\ ~ShowPrivate) =>
        \A k \in ReachedFunctions :
            LET func == genIn.tree.node[k]
            IN /\ SingleUnderscoreName(func.name) => Own(k) = <<>>
               /\ (DunderName(func.name) /\ ~(HideUndocumented /\ ~func.doc.present))
                     => Own(k) # <<>>

\* the classes rendering comes to
ReachedClasses ==
    {k \in 1..Len(genIn.tree.parent) :
        /\ genIn.tree.node[k].type = ClassType
        /\ Reached(genIn.tree, genOut.root_node, genIn.options["deep"][2], k)}

\* the documented methods among the flat children of class k
DocumentedMethods(k) ==
    {c \in FlatChildren(genIn.tree, k) :
        /\ genIn.tree.node[c].type = FunctionType
        /\ genIn.tree.node[c].doc.present}

\* C11: with undocumented members hidden, a class without a docstring writes no
\* heading of its own, and when deep is set its documented methods are still
\* written.
C11_UndocumentedClass ==
    (genOut.done /\ HideUndocumented) =>
        \A k \in ReachedClasses :
            ~genIn.tree.node[k].doc.present =>
                /\ Own(k) = <<>>
                /\ genIn.options["deep"][2] =>
                      \A c \in DocumentedMethods(k) :
                          ~Suppressed(genIn.tree.node[c]) => Own(c) # <<>>

\* ------------------------------------------------------------ the block processor

\* the files of the site: what each parses to
SampleTree ==
    [parent |-> <<0, 1, 2, 3, 3>>,
     node |-> <<ModuleNode, ClassA, Suite, PlainFunction(<<"b">>),
                Node(FunctionType, <<"a">>, FullDoc, <<ParamSelf, ParamX>>, <<>>, None)>>]

Files == PathAPy :> SampleTree

\* pathlib.Path(filename), as str gives it back
Path(filename) == IF filename = <<>> THEN <<".">> ELSE filename

\* PythonGenerator.generate: it prints the docstring node and returns ""
python_generate(tree, symbol) ==
    LET node == IF symbol # None THEN find_symbol(tree, 1, symbol) ELSE 1
    IN IF node = 0
       THEN [status |-> "AttributeError", fragments |-> <<>>]
       ELSE [status |-> "ok", fragments |-> <<>>]

\* generator.generate(Path(filename), symbol, options), the result taken as a list
generator_generate(generator, filepath, symbol, options) ==
    IF filepath \notin DOMAIN Files
    THEN [status |-> "FileNotFoundError", fragments |-> <<>>]
    ELSE IF generator.cls = "PythonGenerator"
    THEN python_generate(Files[filepath], symbol)
    ELSE [status |-> "ok",
          fragments |-> generate(Files[filepath], filepath, symbol, options).fragments]

\* a block of the document: a directive (its target is the text after ":::" on
\* its line, its payload what yaml.safe_load gives for the rest), or other text
Directive(target, payload) ==
    [kind |-> "directive", target |-> target, payload |-> payload, fragment |-> None]

TextBlock == [kind |-> "text", target |-> <<>>, payload |-> None, fragment |-> None]

FragmentBlock(fragment) ==
    [kind |-> "fragment", target |-> <<>>, payload |-> None, fragment |-> fragment]

\* YaargBlockProcessor.test
test(block) == block.kind = "directive"

NoRun ==
    [called |-> FALSE, target |-> <<>>, stage |-> "", status |-> "",
     filename |-> <<>>, symbol |-> None, rest |-> <<>>, inserted |-> <<>>]

\* an exception leaves run: the block is popped already, nothing is inserted
raised(block, rest, stage, status, filename, symbol, caches, heap) ==
    [blocks |-> rest, caches |-> caches, created |-> heap,
     last |-> [called |-> TRUE, target |-> block.target, stage |-> stage,
               status |-> status, filename |-> filename, symbol |-> symbol,
               rest |-> rest, inserted |-> <<>>]]

\* the fragments of the generator go in front of the blocks, in their order
insert(block, rest, filename, symbol, r, g) ==
    IF g.status # "ok"
    THEN raised(block, rest, "generate", g.status, filename, symbol, r.caches, r.created)
    ELSE LET inserted == [i \in 1..Len(g.fragments) |-> FragmentBlock(g.fragments[i])]
         IN [blocks |-> inserted \o rest, caches |-> r.caches, created |-> r.created,
             last |-> [called |-> TRUE, target |-> block.target,
                       stage |-> "done", status |-> "ok",
                       filename |-> filename, symbol |-> symbol,
                       rest |-> rest, inserted |-> inserted]]

\* with the generator and the options the resolver gave
run_generate(block, rest, filename, symbol, r) ==
    IF r.status # "ok"
    THEN raised(block, rest, "resolve", r.status, filename, symbol, r.caches, r.created)
    ELSE insert(block, rest, filename, symbol, r,
                generator_generate(r.generator, Path(filename), symbol, r.options))

\* yaml.safe_load(block) or {}
safe_load(block) ==
    IF block.payload = None \/ block.payload = PyDict(EmptyDict)
    THEN EmptyDict ELSE block.payload[2]

\* YaargBlockProcessor.run on the blocks: the blocks after it, the resolver's
\* cache after it, and what the call did
run(cfgs, caches, heap, bs) ==
    LET block == Head(bs)
        rest == Tail(bs)
        target == Split(block.target, ":", 2)
    IN IF Len(target) > 2
       THEN raised(block, rest, "target", "ValueError", <<>>, None, caches, heap)
       ELSE LET filename == target[1]
                symbol == IF Len(target) < 2 THEN None ELSE target[2]
            IN run_generate(block, rest, filename, symbol,
                            resolve(cfgs, caches, heap, Path(filename), safe_load(block)))

\* ------------------------------------------------------------ the documents

Targets ==
    { PathAPy,
      PathAPy \o <<":", "A">>,
      PathAPy \o <<":", "A", ".", "b">>,
      PathAPy \o <<":", "A", ":", "b">>,
      PathMd \o <<":", "A">> }

Payloads == { None, PyDict([generator |-> PyStr(ParsoPath)]) }

Blocks == {TextBlock} \cup {Directive(t, p) : t \in Targets, p \in Payloads}

InitMarkdown ==
    /\ \E user \in SeqsUpTo(UserRules, 1) : InitResolver(user)
    /\ blocks \in SeqsUpTo(Blocks, MaxBlocks)
    /\ consumed = <<>>
    /\ lastRun = NoRun
    /\ IdleGenerate

\* an exception of run ends the conversion of the document
Converting == lastRun.status \in {"", "ok"}

\* the block parser hands the blocks to YaargBlockProcessor.run
Run ==
    /\ Converting
    /\ blocks # <<>>
    /\ test(Head(blocks))
    /\ LET r == run(configs, generator_caches, created, blocks)
       IN /\ blocks' = r.blocks
          /\ generator_caches' = r.caches
          /\ created' = r.created
          /\ lastRun' = r.last
    /\ UNCHANGED <<configs, lastResolve, genIn, genOut, consumed>>

\* another block processor takes the first block
HostConsume ==
    /\ Converting
    /\ blocks # <<>>
    /\ ~test(Head(blocks))
    /\ consumed' = Append(consumed, Head(blocks))
    /\ blocks' = Tail(blocks)
    /\ UNCHANGED <<configs, generator_caches, created, lastResolve, genIn, genOut,
                   lastRun>>

NextMarkdown == Run \/ HostConsume

SpecMarkdown == InitMarkdown /\ [][NextMarkdown]_vars

\* ------------------------------------------------------------ claims on the block processor

\* C10: for a target with no ":", one ":" or more, run gets a filename and a
\* symbol, the symbol None exactly when the target splits into fewer than two
\* parts, and when the resolver and the generator succeed the fragments stand
\* where the directive block stood, before the remaining blocks in their order.
C10_DirectiveTarget ==
    [][Run =>
        /\ lastRun'.stage # "target"
        /\ lastRun'.filename = Split(Head(blocks).target, ":", 1)[1]
        /\ lastRun'.symbol = None <=> Len(Split(Head(blocks).target, ":", 2)) < 2
        /\ lastRun'.stage = "done" =>
              /\ Len(blocks') >= Len(Tail(blocks))
              /\ SubSeq(blocks', Len(blocks') - Len(Tail(blocks)) + 1, Len(blocks'))
                    = Tail(blocks)
              /\ \A i \in 1..(Len(blocks') - Len(Tail(blocks))) :
                    blocks'[i].kind = "fragment"
    ]_vars

====
